---- MODULE Spec2Model ----
(***************************************************************************)
(* Model of src/event.py: the EventManagementSystem store (two insertion-  *)
(* ordered dictionaries of Event and Attendee objects), its four mutating  *)
(* operations and its whole-file JSON save/load.                           *)
(***************************************************************************)
EXTENDS Integers, Sequences, FiniteSets, TLC

VARIABLES events, attendees, file, last, nCreate, nRegister, out, threads

vars == <<events, attendees, file, last, nCreate, nRegister, out, threads>>

(***************************************************************************)
(* Bounds of the model and the inputs the operations are called with.      *)
(***************************************************************************)
\* create_event and register_attendee are called at most MaxRecords times in all
MaxRecords == 3

Capacities == {-1, 0, 1, 2}
Titles == {"Tech Conference 2025"}
Categories == {"Technology"}
Names == {"Ann", "Bob"}

(***************************************************************************)
(* Python containers.  A dict is a sequence of key/value entries in        *)
(* insertion order; a list is a sequence.                                  *)
(***************************************************************************)
Keys(d) == {d[i].key : i \in 1..Len(d)}

KeySeq(d) == [i \in 1..Len(d) |-> d[i].key]

Has(d, k) == k \in Keys(d)

Get(d, k) == d[CHOOSE i \in 1..Len(d) : d[i].key = k].val

\* d[k] = v: an existing key keeps its position, a new key goes to the end
Put(d, k, v) ==
  IF Has(d, k)
  THEN [i \in 1..Len(d) |-> IF d[i].key = k THEN [key |-> k, val |-> v] ELSE d[i]]
  ELSE Append(d, [key |-> k, val |-> v])

InList(l, x) == \E i \in 1..Len(l) : l[i] = x

\* variant: the last element is moved into the place of x
ListRemove_swap(l, x) ==
  LET p == CHOOSE i \in 1..Len(l) : l[i] = x /\ \A j \in 1..(i - 1) : l[j] # x
  IN  [i \in 1..(Len(l) - 1) |-> IF i = p THEN l[Len(l)] ELSE l[i]]

\* list.remove(x): drops the first occurrence of x (x is known to occur)
ListRemove(l, x) ==
  LET p == CHOOSE i \in 1..Len(l) : l[i] = x /\ \A j \in 1..(i - 1) : l[j] # x
  IN  [i \in 1..(Len(l) - 1) |-> IF i < p THEN l[i] ELSE l[i + 1]]

Count(l, x) == Cardinality({i \in 1..Len(l) : l[i] = x})

(***************************************************************************)
(* Identifier formatting: f"{n:04d}" pads the decimal form of n with       *)
(* zeros on the left to a width of four (wider numbers are not cut).       *)
(***************************************************************************)
Fmt04d(n) ==
  IF n < 10 THEN "000" \o ToString(n)
  ELSE IF n < 100 THEN "00" \o ToString(n)
  ELSE IF n < 1000 THEN "0" \o ToString(n)
  ELSE ToString(n)

EventIdFor(evs) == "EVT" \o Fmt04d(Len(evs) + 1)

AttendeeIdFor(atts) == "ATT" \o Fmt04d(Len(atts) + 1)

(***************************************************************************)
(* The two classes.                                                        *)
(***************************************************************************)
NewAttendee(id, name, email, phone) ==
  [attendee_id |-> id, name |-> name, email |-> email, phone |-> phone,
   registered_events |-> <<>>]

NewEvent(id, title, description, date, time, venue, capacity, category) ==
  [event_id |-> id, title |-> title, description |-> description,
   date |-> date, time |-> time, venue |-> venue, capacity |-> capacity,
   category |-> category, registered_attendees |-> <<>>]

\* variant: full only when the count equals the capacity
is_full_equal(event) == Len(event.registered_attendees) = event.capacity

is_full(event) == Len(event.registered_attendees) >= event.capacity

get_available_seats(event) == event.capacity - Len(event.registered_attendees)

\* variant: the identifier is taken again from the size at insertion time
store_event_fresh(evs, id, title, capacity, category) ==
  Put(evs, EventIdFor(evs),
      NewEvent(EventIdFor(evs), title, "desc", "2025-12-15", "09:00 AM", "Hall",
               capacity, category))

\* the second half of create_event: build the Event under the identifier
\* computed before and store it under that key
store_event(evs, id, title, capacity, category) ==
  Put(evs, id, NewEvent(id, title, "desc", "2025-12-15", "09:00 AM", "Hall",
                        capacity, category))

(***************************************************************************)
(* create_event and register_attendee: the identifier comes from the       *)
(* current size of the dictionary, the record is stored under it.          *)
(***************************************************************************)
create_event_m0(evs, title, capacity, category) ==
  LET id == "EVT" \o Fmt04d(Len(evs))
  IN  [id |-> id,
       events |-> Put(evs, id, NewEvent(id, title, "desc", "2025-12-15",
                                        "09:00 AM", "Hall", capacity, category))]

create_event(evs, title, capacity, category) ==
  LET id == EventIdFor(evs)
  IN  [id |-> id, events |-> store_event(evs, id, title, capacity, category)]

register_attendee(atts, name) ==
  LET id == AttendeeIdFor(atts)
  IN  [id |-> id,
       attendees |-> Put(atts, id, NewAttendee(id, name, name \o "@x.org", "555"))]

(***************************************************************************)
(* Outcome of a booking operation: the returned bool, the message printed  *)
(* (named by its reason), whether an exception left the method, and the    *)
(* two dictionaries as the call leaves them.                               *)
(***************************************************************************)
Outcome(ok, msg, raised, evs, atts) ==
  [ok |-> ok, msg |-> msg, raised |-> raised, events |-> evs, attendees |-> atts]

WithBooked(event, a) ==
  [event EXCEPT !.registered_attendees = Append(@, a)]

WithRegistered(attendee, e) ==
  [attendee EXCEPT !.registered_events = Append(@, e)]

\* variant: the already-registered test is missing
book_event_noDupCheck(evs, atts, a, e) ==
  IF ~Has(atts, a) THEN Outcome(FALSE, "AttendeeNotFound", FALSE, evs, atts)
  ELSE IF ~Has(evs, e) THEN Outcome(FALSE, "EventNotFound", FALSE, evs, atts)
  ELSE IF is_full(Get(evs, e)) THEN Outcome(FALSE, "EventFull", FALSE, evs, atts)
  ELSE Outcome(TRUE, "Booked", FALSE,
               Put(evs, e, WithBooked(Get(evs, e), a)),
               Put(atts, a, WithRegistered(Get(atts, a), e)))

\* variant: the already-registered test comes before the capacity test
book_event_dupFirst(evs, atts, a, e) ==
  IF ~Has(atts, a) THEN Outcome(FALSE, "AttendeeNotFound", FALSE, evs, atts)
  ELSE IF ~Has(evs, e) THEN Outcome(FALSE, "EventNotFound", FALSE, evs, atts)
  ELSE IF InList(Get(atts, a).registered_events, e)
       THEN Outcome(FALSE, "AlreadyBooked", FALSE, evs, atts)
  ELSE IF is_full(Get(evs, e)) THEN Outcome(FALSE, "EventFull", FALSE, evs, atts)
  ELSE Outcome(TRUE, "Booked", FALSE,
               Put(evs, e, WithBooked(Get(evs, e), a)),
               Put(atts, a, WithRegistered(Get(atts, a), e)))

\* variant: only the event's list is appended to
book_event_eventOnly(evs, atts, a, e) ==
  IF ~Has(atts, a) THEN Outcome(FALSE, "AttendeeNotFound", FALSE, evs, atts)
  ELSE IF ~Has(evs, e) THEN Outcome(FALSE, "EventNotFound", FALSE, evs, atts)
  ELSE IF is_full(Get(evs, e)) THEN Outcome(FALSE, "EventFull", FALSE, evs, atts)
  ELSE IF InList(Get(atts, a).registered_events, e)
       THEN Outcome(FALSE, "AlreadyBooked", FALSE, evs, atts)
  ELSE Outcome(TRUE, "Booked", FALSE,
               Put(evs, e, WithBooked(Get(evs, e), a)), atts)

\* variant: the event's list is appended to before the already-registered test
book_event_appendEarly(evs, atts, a, e) ==
  IF ~Has(atts, a) THEN Outcome(FALSE, "AttendeeNotFound", FALSE, evs, atts)
  ELSE IF ~Has(evs, e) THEN Outcome(FALSE, "EventNotFound", FALSE, evs, atts)
  ELSE IF is_full(Get(evs, e)) THEN Outcome(FALSE, "EventFull", FALSE, evs, atts)
  ELSE IF InList(Get(atts, a).registered_events, e)
       THEN Outcome(FALSE, "AlreadyBooked", FALSE,
                    Put(evs, e, WithBooked(Get(evs, e), a)), atts)
  ELSE Outcome(TRUE, "Booked", FALSE,
               Put(evs, e, WithBooked(Get(evs, e), a)),
               Put(atts, a, WithRegistered(Get(atts, a), e)))

\* book_event: four tests in the order of the code, then the two appends
book_event(evs, atts, a, e) ==
  IF ~Has(atts, a) THEN Outcome(FALSE, "AttendeeNotFound", FALSE, evs, atts)
  ELSE IF ~Has(evs, e) THEN Outcome(FALSE, "EventNotFound", FALSE, evs, atts)
  ELSE IF is_full(Get(evs, e)) THEN Outcome(FALSE, "EventFull", FALSE, evs, atts)
  ELSE IF InList(Get(atts, a).registered_events, e)
       THEN Outcome(FALSE, "AlreadyBooked", FALSE, evs, atts)
  ELSE Outcome(TRUE, "Booked", FALSE,
               Put(evs, e, WithBooked(Get(evs, e), a)),
               Put(atts, a, WithRegistered(Get(atts, a), e)))

WithoutBooked(event, a) ==
  [event EXCEPT !.registered_attendees = ListRemove(@, a)]

WithoutRegistered(attendee, e) ==
  [attendee EXCEPT !.registered_events = ListRemove(@, e)]

\* variant: only the attendee's list is edited
cancel_booking_oneSide(evs, atts, a, e) ==
  IF ~Has(atts, a) \/ ~Has(evs, e)
  THEN Outcome(FALSE, "InvalidIdentifier", FALSE, evs, atts)
  ELSE IF ~InList(Get(atts, a).registered_events, e)
       THEN Outcome(FALSE, "BookingNotFound", FALSE, evs, atts)
  ELSE Outcome(TRUE, "Cancelled", FALSE,
               evs, Put(atts, a, WithoutRegistered(Get(atts, a), e)))

\* variant: the booking-exists test is missing
cancel_booking_noEdgeCheck(evs, atts, a, e) ==
  IF ~Has(atts, a) \/ ~Has(evs, e)
  THEN Outcome(FALSE, "InvalidIdentifier", FALSE, evs, atts)
  ELSE IF ~InList(Get(evs, e).registered_attendees, a)
       THEN Outcome(FALSE, "ValueError", TRUE, evs, atts)
  ELSE Outcome(TRUE, "Cancelled", FALSE,
               Put(evs, e, WithoutBooked(Get(evs, e), a)),
               Put(atts, a, WithoutRegistered(Get(atts, a), e)))

\* cancel_booking: the joint identifier test, the booking test on the
\* attendee's list, then list.remove on the event's list (which raises
\* ValueError, before anything is edited, when the identifier is not in it)
\* and on the attendee's list
cancel_booking(evs, atts, a, e) ==
  IF ~Has(atts, a) \/ ~Has(evs, e)
  THEN Outcome(FALSE, "InvalidIdentifier", FALSE, evs, atts)
  ELSE IF ~InList(Get(atts, a).registered_events, e)
       THEN Outcome(FALSE, "BookingNotFound", FALSE, evs, atts)
  ELSE IF ~InList(Get(evs, e).registered_attendees, a)
       THEN Outcome(FALSE, "ValueError", TRUE, evs, atts)
  ELSE Outcome(TRUE, "Cancelled", FALSE,
               Put(evs, e, WithoutBooked(Get(evs, e), a)),
               Put(atts, a, WithoutRegistered(Get(atts, a), e)))

(***************************************************************************)
(* search_events.  A string that is searched is a sequence of characters;  *)
(* str.lower() maps each upper-case letter to its lower-case letter and    *)
(* leaves every other character alone; k in s is the substring test.       *)
(***************************************************************************)
UpperCase ==
  <<"A", "B", "C", "D", "E", "F", "G", "H", "I", "J", "K", "L", "M",
    "N", "O", "P", "Q", "R", "S", "T", "U", "V", "W", "X", "Y", "Z">>

LowerCase ==
  <<"a", "b", "c", "d", "e", "f", "g", "h", "i", "j", "k", "l", "m",
    "n", "o", "p", "q", "r", "s", "t", "u", "v", "w", "x", "y", "z">>

LowerChar(c) ==
  IF \E i \in 1..Len(UpperCase) : UpperCase[i] = c
  THEN LowerCase[CHOOSE i \in 1..Len(UpperCase) : UpperCase[i] = c]
  ELSE c

lower(str) == [i \in 1..Len(str) |-> LowerChar(str[i])]

\* needle in hay
Substring(needle, hay) ==
  \E k \in 0..(Len(hay) - Len(needle)) :
    \A i \in 1..Len(needle) : hay[k + i] = needle[i]

RECURSIVE search_loop(_, _, _, _)
\* the for loop over self.events.values(), from the i-th entry on
search_loop(evs, keyword_lower, i, results) ==
  IF i > Len(evs) THEN results
  ELSE search_loop(evs, keyword_lower, i + 1,
         IF \/ Substring(keyword_lower, lower(evs[i].val.title))
            \/ Substring(keyword_lower, lower(evs[i].val.category))
         THEN Append(results, evs[i].val)
         ELSE results)

\* variant: the keyword is used as typed
search_events_rawKeyword(evs, keyword) == search_loop(evs, keyword, 1, <<>>)

search_events(evs, keyword) == search_loop(evs, lower(keyword), 1, <<>>)

(***************************************************************************)
(* get_event_report.  The report is what the method prints: the capacity,  *)
(* the number registered, the seats left, the occupancy rate and one       *)
(* name/email line per identifier of the event's list that is a known      *)
(* attendee.  The rate is len / capacity * 100 printed with one decimal,   *)
(* kept here in tenths of a percent (rounded to the nearest tenth); the    *)
(* division raises ZeroDivisionError for capacity 0, after the first three *)
(* numbers are printed and before any attendee line.                       *)
(***************************************************************************)
Report(capacity, registered, available, rate, entries) ==
  [capacity |-> capacity, registered |-> registered, available |-> available,
   rate |-> rate, entries |-> entries]

Printed(kind, raised, msg, report) ==
  [kind |-> kind, raised |-> raised, msg |-> msg, report |-> report]

occupancy_rate(registered, capacity) ==
  IF capacity > 0
  THEN (2000 * registered + capacity) \div (2 * capacity)
  ELSE 0 - ((2000 * registered - capacity) \div (2 * (0 - capacity)))

RECURSIVE report_loop(_, _, _, _)
\* the for loop over event.registered_attendees, from the i-th entry on
report_loop(ids, atts, i, entries) ==
  IF i > Len(ids) THEN entries
  ELSE report_loop(ids, atts, i + 1,
         IF Has(atts, ids[i])
         THEN Append(entries, <<Get(atts, ids[i]).name, Get(atts, ids[i]).email>>)
         ELSE entries)

RECURSIVE report_loop_byAttendee(_, _, _, _)
\* variant of the loop: over self.attendees, keeping those in the list
report_loop_byAttendee(ids, atts, i, entries) ==
  IF i > Len(atts) THEN entries
  ELSE report_loop_byAttendee(ids, atts, i + 1,
         IF \E j \in 1..Len(ids) : ids[j] = atts[i].key
         THEN Append(entries, <<atts[i].val.name, atts[i].val.email>>)
         ELSE entries)

\* variant: the attendee lines follow the order of the attendee dictionary
get_event_report_byAttendee(evs, atts, e) ==
  IF ~Has(evs, e)
  THEN Printed("report", FALSE, "EventNotFound", Report(0, 0, 0, 0, <<>>))
  ELSE LET event == Get(evs, e)
           registered == Len(event.registered_attendees)
       IN  IF event.capacity = 0
           THEN Printed("report", TRUE, "ZeroDivisionError",
                        Report(event.capacity, registered,
                               get_available_seats(event), 0, <<>>))
           ELSE Printed("report", FALSE, "Report",
                        Report(event.capacity, registered,
                               get_available_seats(event),
                               occupancy_rate(registered, event.capacity),
                               report_loop_byAttendee(event.registered_attendees,
                                                      atts, 1, <<>>)))

\* variant: an event of capacity 0 is reported with rate 0
get_event_report_guarded(evs, atts, e) ==
  IF ~Has(evs, e)
  THEN Printed("report", FALSE, "EventNotFound", Report(0, 0, 0, 0, <<>>))
  ELSE LET event == Get(evs, e)
           registered == Len(event.registered_attendees)
       IN  Printed("report", FALSE, "Report",
                   Report(event.capacity, registered,
                          get_available_seats(event),
                          IF event.capacity = 0 THEN 0
                          ELSE occupancy_rate(registered, event.capacity),
                          report_loop(event.registered_attendees, atts, 1, <<>>)))

get_event_report(evs, atts, e) ==
  IF ~Has(evs, e)
  THEN Printed("report", FALSE, "EventNotFound", Report(0, 0, 0, 0, <<>>))
  ELSE LET event == Get(evs, e)
           registered == Len(event.registered_attendees)
       IN  IF event.capacity = 0
           THEN Printed("report", TRUE, "ZeroDivisionError",
                        Report(event.capacity, registered,
                               get_available_seats(event), 0, <<>>))
           ELSE Printed("report", FALSE, "Report",
                        Report(event.capacity, registered,
                               get_available_seats(event),
                               occupancy_rate(registered, event.capacity),
                               report_loop(event.registered_attendees, atts,
                                           1, <<>>)))

(***************************************************************************)
(* Persistence.  A JSON object is a sequence of key/value entries (json    *)
(* keeps the order of the dictionary it dumps and of the text it loads);   *)
(* the file either does not exist or holds one document.                   *)
(***************************************************************************)
EventFields ==
  {"event_id", "title", "description", "date", "time", "venue", "capacity",
   "category"}

AttendeeFields == {"attendee_id", "name", "email", "phone"}

Event_to_dict(event) ==
  [event_id |-> event.event_id, title |-> event.title,
   description |-> event.description, date |-> event.date,
   time |-> event.time, venue |-> event.venue, capacity |-> event.capacity,
   category |-> event.category,
   registered_attendees |-> event.registered_attendees]

Attendee_to_dict(attendee) ==
  [attendee_id |-> attendee.attendee_id, name |-> attendee.name,
   email |-> attendee.email, phone |-> attendee.phone,
   registered_events |-> attendee.registered_events]

\* variant: the stored booking list is not read back
Event_from_dict_noList(data) ==
  NewEvent(data.event_id, data.title, data.description, data.date, data.time,
           data.venue, data.capacity, data.category)

\* from_dict: the constructor on the required fields, then the booking list
\* with [] for a document that has none
Event_from_dict(data) ==
  [NewEvent(data.event_id, data.title, data.description, data.date, data.time,
            data.venue, data.capacity, data.category)
   EXCEPT !.registered_attendees =
     IF "registered_attendees" \in DOMAIN data
     THEN data.registered_attendees ELSE <<>>]

Attendee_from_dict(data) ==
  [NewAttendee(data.attendee_id, data.name, data.email, data.phone)
   EXCEPT !.registered_events =
     IF "registered_events" \in DOMAIN data
     THEN data.registered_events ELSE <<>>]

\* the document save_data dumps
save_data(evs, atts) ==
  [events |-> [i \in 1..Len(evs) |->
                 [key |-> evs[i].key, val |-> Event_to_dict(evs[i].val)]],
   attendees |-> [i \in 1..Len(atts) |->
                 [key |-> atts[i].key, val |-> Attendee_to_dict(atts[i].val)]]]

NoFile == [exists |-> FALSE, data |-> [events |-> <<>>, attendees |-> <<>>]]

FileOf(doc) == [exists |-> TRUE, data |-> doc]

AllHave(objs, fields) ==
  \A i \in 1..Len(objs) : fields \subseteq DOMAIN objs[i].val

LoadedEvents(doc) ==
  [i \in 1..Len(doc.events) |->
     [key |-> doc.events[i].key, val |-> Event_from_dict(doc.events[i].val)]]

LoadedAttendees(doc) ==
  [i \in 1..Len(doc.attendees) |->
     [key |-> doc.attendees[i].key,
      val |-> Attendee_from_dict(doc.attendees[i].val)]]

\* load_data: a missing file is reported and nothing is assigned; otherwise
\* self.events is assigned once every event is built, then self.attendees
\* once every attendee is built; a KeyError leaves the method at the point
\* where the part is missing
load_data(evs, atts, f) ==
  IF ~f.exists THEN Outcome(FALSE, "FileNotFound", FALSE, evs, atts)
  ELSE IF ~("events" \in DOMAIN f.data /\ AllHave(f.data.events, EventFields))
       THEN Outcome(FALSE, "KeyError", TRUE, evs, atts)
  ELSE IF ~("attendees" \in DOMAIN f.data
            /\ AllHave(f.data.attendees, AttendeeFields))
       THEN Outcome(FALSE, "KeyError", TRUE, LoadedEvents(f.data), atts)
  ELSE Outcome(TRUE, "Loaded", FALSE,
               LoadedEvents(f.data), LoadedAttendees(f.data))

(***************************************************************************)
(* The state machine.  last records the operation that was just called,    *)
(* its arguments and what it returned; nCreate and nRegister count the     *)
(* calls of create_event and register_attendee; out is what the call just  *)
(* made returned or printed as its result; threads holds the position and  *)
(* the locals of each concurrent create_event invocation.                  *)
(***************************************************************************)
\* identifiers a caller passes: every key of the store and one that is none
EventIds == Keys(events) \cup {"EVT" \o Fmt04d(MaxRecords + 1)}

AttendeeIds == Keys(attendees) \cup {"ATT" \o Fmt04d(MaxRecords + 1)}

Call(op, a, e, ok, msg, id) ==
  [op |-> op, a |-> a, e |-> e, ok |-> ok, msg |-> msg, id |-> id]

NoReport ==
  [capacity |-> 0, registered |-> 0, available |-> 0, rate |-> 0,
   entries |-> <<>>]

\* a call that returns no list and prints no report
NoOutput ==
  [kind |-> "none", raised |-> FALSE, keyword |-> <<>>, results |-> <<>>,
   report |-> NoReport]

Threads == {1, 2}

Idle == [pc |-> "idle", id |-> "", capacity |-> 0, seen |-> 0, overlapped |-> FALSE]

Init ==
  /\ events = <<>>
  /\ attendees = <<>>
  /\ file = NoFile
  /\ last = Call("init", "", "", TRUE, "", "")
  /\ nCreate = 0
  /\ nRegister = 0
  /\ out = NoOutput
  /\ threads = [t \in Threads |-> Idle]

CreateEvent ==
  /\ nCreate + nRegister < MaxRecords
  /\ \E title \in Titles, capacity \in Capacities, category \in Categories :
       LET r == create_event(events, title, capacity, category)
       IN  /\ events' = r.events
           /\ last' = Call("create_event", "", "", TRUE, "Created", r.id)
  /\ nCreate' = nCreate + 1
  /\ out' = NoOutput
  /\ UNCHANGED <<attendees, file, nRegister, threads>>

RegisterAttendee ==
  /\ nCreate + nRegister < MaxRecords
  /\ \E name \in Names :
       LET r == register_attendee(attendees, name)
       IN  /\ attendees' = r.attendees
           /\ last' = Call("register_attendee", "", "", TRUE, "Registered", r.id)
  /\ nRegister' = nRegister + 1
  /\ out' = NoOutput
  /\ UNCHANGED <<events, file, nCreate, threads>>

BookEvent ==
  /\ \E a \in AttendeeIds, e \in EventIds :
       LET r == book_event(events, attendees, a, e)
       IN  /\ events' = r.events
           /\ attendees' = r.attendees
           /\ last' = Call("book_event", a, e, r.ok, r.msg, "")
  /\ out' = NoOutput
  /\ UNCHANGED <<file, nCreate, nRegister, threads>>

CancelBooking ==
  /\ \E a \in AttendeeIds, e \in EventIds :
       LET r == cancel_booking(events, attendees, a, e)
       IN  /\ events' = r.events
           /\ attendees' = r.attendees
           /\ last' = Call("cancel_booking", a, e, r.ok, r.msg, "")
  /\ out' = NoOutput
  /\ UNCHANGED <<file, nCreate, nRegister, threads>>

SaveData ==
  /\ file' = FileOf(save_data(events, attendees))
  /\ last' = Call("save_data", "", "", TRUE, "Saved", "")
  /\ out' = NoOutput
  /\ UNCHANGED <<events, attendees, nCreate, nRegister, threads>>

LoadData ==
  /\ LET r == load_data(events, attendees, file)
     IN  /\ events' = r.events
         /\ attendees' = r.attendees
         /\ last' = Call("load_data", "", "", r.ok, r.msg, "")
  /\ out' = NoOutput
  /\ UNCHANGED <<file, nCreate, nRegister, threads>>

\* create / register / book / cancel from the empty store
Next == CreateEvent \/ RegisterAttendee \/ BookEvent \/ CancelBooking

Spec == Init /\ [][Next]_vars

\* the same with save_data and load_data of the file save_data wrote
NextPersist == Next \/ SaveData \/ LoadData

SpecPersist == Init /\ [][NextPersist]_vars

(***************************************************************************)
(* search_events on stores whose titles and categories vary.               *)
(***************************************************************************)
\* the stores searched hold at most MaxSearchEvents events
MaxSearchEvents == 2

SearchTitles ==
  {<<"T", "e", "c", "h">>, <<"M", "u", "s", "i", "c">>,
   <<"A", "R", "T", " ", "2", "5">>}

SearchCategories ==
  {<<"T", "e", "c", "h", "n", "o">>, <<"A", "r", "t">>, <<"B", "i", "z">>}

Keywords ==
  {<<"t", "e", "c", "h">>, <<"T", "E", "C", "H">>, <<"a", "r", "T">>,
   <<"c", "h", "n">>, <<" ", "2">>, <<"z", "z">>, <<>>}

RECURSIVE StoreOf(_)
\* the store after create_event was called with each title/category of inputs
StoreOf(inputs) ==
  IF inputs = <<>> THEN <<>>
  ELSE create_event(StoreOf(SubSeq(inputs, 1, Len(inputs) - 1)),
                    inputs[Len(inputs)][1], 1, inputs[Len(inputs)][2]).events

SearchInputs ==
  UNION {[1..n -> SearchTitles \X SearchCategories] : n \in 0..MaxSearchEvents}

InitSearch ==
  /\ events \in {StoreOf(inputs) : inputs \in SearchInputs}
  /\ attendees = <<>>
  /\ file = NoFile
  /\ last = Call("init", "", "", TRUE, "", "")
  /\ nCreate = Len(events)
  /\ nRegister = 0
  /\ out = NoOutput
  /\ threads = [t \in Threads |-> Idle]

SearchEvents ==
  /\ \E keyword \in Keywords :
       out' = [NoOutput EXCEPT !.kind = "search", !.keyword = keyword,
                               !.results = search_events(events, keyword)]
  /\ last' = Call("search_events", "", "", TRUE, "", "")
  /\ UNCHANGED <<events, attendees, file, nCreate, nRegister, threads>>

NextSearch == SearchEvents

SpecSearch == InitSearch /\ [][NextSearch]_vars

(***************************************************************************)
(* Reports.  The run starts either from the empty store or from a store    *)
(* that already holds one event of SeedCapacity seats and three attendees  *)
(* (main creates its sample events the same way before the menu starts).   *)
(***************************************************************************)
SeedCapacity == 3

SeedEvents == create_event(<<>>, "Startup Pitch Day", SeedCapacity, "Business").events

SeedAttendees ==
  register_attendee(
    register_attendee(
      register_attendee(<<>>, "Ann").attendees, "Bob").attendees, "Cy").attendees

InitSeeded ==
  /\ \/ events = <<>> /\ attendees = <<>>
     \/ events = SeedEvents /\ attendees = SeedAttendees
  /\ file = NoFile
  /\ last = Call("init", "", "", TRUE, "", "")
  /\ nCreate = Len(events)
  /\ nRegister = Len(attendees)
  /\ out = NoOutput
  /\ threads = [t \in Threads |-> Idle]

GetEventReport ==
  /\ \E e \in EventIds :
       LET r == get_event_report(events, attendees, e)
       IN  /\ out' = [NoOutput EXCEPT !.kind = r.kind, !.raised = r.raised,
                                      !.report = r.report]
           /\ last' = Call("get_event_report", "", e, ~r.raised, r.msg, "")
  /\ UNCHANGED <<events, attendees, file, nCreate, nRegister, threads>>

NextReport == Next \/ GetEventReport

SpecReport == InitSeeded /\ [][NextReport]_vars

(***************************************************************************)
(* Files that save_data did not write: a document in the persistence       *)
(* format with any keys, found in place when the program starts, and       *)
(* documents that lack a required part.                                    *)
(***************************************************************************)
DocEvent(id) ==
  Event_to_dict(NewEvent(id, "Tech Conference 2025", "desc", "2025-12-15",
                         "09:00 AM", "Hall", 1, "Technology"))

DocAttendee(id) == Attendee_to_dict(NewAttendee(id, "Ann", "Ann@x.org", "555"))

DocEvents(keys) ==
  [i \in 1..Len(keys) |-> [key |-> keys[i], val |-> DocEvent(keys[i])]]

DocAttendees(keys) ==
  [i \in 1..Len(keys) |-> [key |-> keys[i], val |-> DocAttendee(keys[i])]]

DocEventKeys == {<<>>, <<"EVT0002">>, <<"EVT0002", "EVT0001">>}

DocAttendeeKeys == {<<>>, <<"ATT0002">>}

\* a document whose records carry no booking lists (they are optional)
DocWithoutLists ==
  [events |-> <<[key |-> "EVT0001",
                 val |-> [event_id |-> "EVT0001", title |-> "Tech Conference 2025",
                          description |-> "desc", date |-> "2025-12-15",
                          time |-> "09:00 AM", venue |-> "Hall", capacity |-> 1,
                          category |-> "Technology"]]>>,
   attendees |-> <<[key |-> "ATT0001",
                    val |-> [attendee_id |-> "ATT0001", name |-> "Ann",
                             email |-> "Ann@x.org", phone |-> "555"]]>>]

WellFormedDocs ==
  {[events |-> DocEvents(ek), attendees |-> DocAttendees(ak)] :
     ek \in DocEventKeys, ak \in DocAttendeeKeys}
  \cup {DocWithoutLists}

\* documents without the "attendees" section, without the "events" section,
\* with an attendee that has no "phone", with an event that has no "capacity"
MalformedDocs ==
  {[events |-> DocEvents(<<"EVT0001">>)],
   [attendees |-> DocAttendees(<<"ATT0001">>)],
   [events |-> DocEvents(<<"EVT0001">>),
    attendees |-> <<[key |-> "ATT0001",
                     val |-> [attendee_id |-> "ATT0001", name |-> "Ann",
                              email |-> "Ann@x.org"]]>>],
   [events |-> <<[key |-> "EVT0001",
                  val |-> [event_id |-> "EVT0001", title |-> "Tech Conference 2025",
                           description |-> "desc", date |-> "2025-12-15",
                           time |-> "09:00 AM", venue |-> "Hall",
                           category |-> "Technology"]]>>,
    attendees |-> DocAttendees(<<"ATT0001">>)]}

\* the file the program finds when it starts is one of docs
InitWithFile(docs) ==
  /\ events = <<>>
  /\ attendees = <<>>
  /\ \E doc \in docs : file = FileOf(doc)
  /\ last = Call("init", "", "", TRUE, "", "")
  /\ nCreate = 0
  /\ nRegister = 0
  /\ out = NoOutput
  /\ threads = [t \in Threads |-> Idle]

NextDocs == Next \/ LoadData

SpecDocs == InitWithFile(WellFormedDocs) /\ [][NextDocs]_vars

SpecAnyDocs ==
  InitWithFile(WellFormedDocs \cup MalformedDocs) /\ [][NextDocs]_vars

(***************************************************************************)
(* Properties.                                                             *)
(***************************************************************************)
BookedInAttendee(a, e) == InList(Get(attendees, a).registered_events, e)

BookedInEvent(a, e) == InList(Get(events, e).registered_attendees, a)

SomeBooking ==
  \E a \in Keys(attendees), e \in Keys(events) :
    BookedInAttendee(a, e) /\ BookedInEvent(a, e)

\* C1: for every attendee a and event e of the store, e is in
\* a.registered_events if and only if a is in e.registered_attendees, in
\* every state reached by create / register / book / cancel and by load_data
\* of a file that save_data wrote.
C1_Bidirectional ==
  \A a \in Keys(attendees), e \in Keys(events) :
    BookedInAttendee(a, e) <=> BookedInEvent(a, e)

\* a snapshot with a booking was loaded back over a store that had grown
\* since it was saved
C1_Witness ==
  /\ last.op = "load_data"
  /\ last.ok
  /\ SomeBooking
  /\ nCreate + nRegister > Len(events) + Len(attendees)

\* C2 (as stated): every event holds at most capacity bookings, whatever
\* integer capacity create_event was given.
C2_CapacityAnyInteger ==
  \A i \in 1..Len(events) :
    Len(events[i].val.registered_attendees) <= events[i].val.capacity

\* C3: no identifier occurs twice in an event's registered_attendees or in an
\* attendee's registered_events.
C3_Deduplicated ==
  /\ \A i \in 1..Len(events) : \A a \in Keys(attendees) :
       Count(events[i].val.registered_attendees, a) <= 1
  /\ \A i \in 1..Len(attendees) : \A e \in Keys(events) :
       Count(attendees[i].val.registered_events, e) <= 1

\* a second booking of the same pair was refused while the event had room
C3_Witness ==
  /\ last.op = "book_event"
  /\ last.msg = "AlreadyBooked"
  /\ ~is_full(Get(events, last.e))

\* C4: a book_event or cancel_booking call that returns failure leaves both
\* dictionaries, every booking list and its order as they were.
C4_RejectedIsNoOp ==
  [][(last'.op \in {"book_event", "cancel_booking"} /\ ~last'.ok)
       => (events' = events /\ attendees' = attendees)]_vars

\* a call was refused in a store that holds a booking
C4_Witness ==
  /\ last.op \in {"book_event", "cancel_booking"}
  /\ ~last.ok
  /\ last.msg \in {"EventFull", "BookingNotFound"}
  /\ SomeBooking

\* the step is a book_event call repeating the pair of the successful
\* book_event call just before it
RepeatedBooking ==
  /\ last.op = "book_event"
  /\ last.ok
  /\ last'.op = "book_event"
  /\ last'.a = last.a
  /\ last'.e = last.e

\* C5 (as stated): book_event(a, e) right after a successful book_event(a, e)
\* fails with AlreadyBooked and changes nothing.
C5_SecondIsAlreadyBooked ==
  [][RepeatedBooking
       => (/\ ~last'.ok
           /\ last'.msg = "AlreadyBooked"
           /\ events' = events
           /\ attendees' = attendees)]_vars

\* C5 (amended): book_event(a, e) right after a successful book_event(a, e)
\* fails and changes nothing; the reason is EventFull when the first booking
\* took the last seat and AlreadyBooked otherwise.
C5_SecondIsRefused ==
  [][RepeatedBooking
       => (/\ ~last'.ok
           /\ last'.msg = (IF Len(Get(events, last.e).registered_attendees)
                                >= Get(events, last.e).capacity
                           THEN "EventFull" ELSE "AlreadyBooked")
           /\ events' = events
           /\ attendees' = attendees)]_vars

\* the pair is booked and booking it again was refused as EventFull
C5_Witness ==
  /\ last.op = "book_event"
  /\ last.msg = "EventFull"
  /\ Has(attendees, last.a) /\ Has(events, last.e)
  /\ BookedInAttendee(last.a, last.e)
  /\ BookedInEvent(last.a, last.e)

\* the reason the decision table of book_event gives in the current state
BookTable(a, e) ==
  IF a \notin Keys(attendees) THEN "AttendeeNotFound"
  ELSE IF e \notin Keys(events) THEN "EventNotFound"
  ELSE IF ~(Len(Get(events, e).registered_attendees) < Get(events, e).capacity)
       THEN "EventFull"
  ELSE IF BookedInAttendee(a, e) THEN "AlreadyBooked"
  ELSE "Booked"

\* C6: book_event(a, e) succeeds exactly when a and e are known, e has a free
\* seat and e is not in a.registered_events; otherwise it fails with the
\* first of AttendeeNotFound, EventNotFound, EventFull, AlreadyBooked that
\* applies.  On success a goes to the end of e.registered_attendees and e to
\* the end of a.registered_events.
C6_BookDecisionTable ==
  [][last'.op = "book_event"
       => (/\ last'.msg = BookTable(last'.a, last'.e)
           /\ last'.ok <=> (BookTable(last'.a, last'.e) = "Booked")
           /\ last'.ok =>
                (/\ Get(events', last'.e).registered_attendees
                      = Append(Get(events, last'.e).registered_attendees, last'.a)
                 /\ Get(attendees', last'.a).registered_events
                      = Append(Get(attendees, last'.a).registered_events, last'.e)))]_vars

\* a booking went to the end of two lists that already held another entry
C6_Witness ==
  /\ last.op = "book_event"
  /\ last.ok
  /\ Len(Get(events, last.e).registered_attendees) = 2
  /\ Get(events, last.e).registered_attendees[2] = last.a

\* C7: right after a successful cancel_booking(a, e), book_event(a, e)
\* succeeds and puts the pair back in both lists, and book_event(b, e)
\* succeeds for every other attendee b not booked into e.
C7_CancelFreesSeat ==
  (last.op = "cancel_booking" /\ last.ok) =>
    /\ LET r == book_event(events, attendees, last.a, last.e)
       IN  /\ r.ok
           /\ InList(Get(r.events, last.e).registered_attendees, last.a)
           /\ InList(Get(r.attendees, last.a).registered_events, last.e)
    /\ \A b \in Keys(attendees) :
         (b # last.a /\ ~BookedInAttendee(b, last.e))
           => book_event(events, attendees, b, last.e).ok

\* a booking of a capacity-1 event was cancelled while a second attendee
\* was registered and not booked into it
C7_Witness ==
  /\ last.op = "cancel_booking"
  /\ last.ok
  /\ Get(events, last.e).capacity = 1
  /\ \E b \in Keys(attendees) : b # last.a /\ ~BookedInAttendee(b, last.e)

\* the outcome the cancel_booking table gives in the current state
CancelTable(a, e) ==
  IF a \notin Keys(attendees) \/ e \notin Keys(events) THEN "InvalidIdentifier"
  ELSE IF ~BookedInAttendee(a, e) THEN "BookingNotFound"
  ELSE "Cancelled"

\* C8: cancel_booking(a, e) fails with InvalidIdentifier when a or e is
\* unknown, else with BookingNotFound when e is not in a.registered_events,
\* else succeeds, takes a out of e.registered_attendees and e out of
\* a.registered_events in the same call, and never raises.
C8_CancelOutcomes ==
  [][last'.op = "cancel_booking"
       => (/\ last'.msg = CancelTable(last'.a, last'.e)
           /\ last'.ok <=> (CancelTable(last'.a, last'.e) = "Cancelled")
           /\ last'.ok =>
                (/\ ~InList(Get(events', last'.e).registered_attendees, last'.a)
                 /\ ~InList(Get(attendees', last'.a).registered_events, last'.e)
                 /\ Len(Get(events', last'.e).registered_attendees)
                      = Len(Get(events, last'.e).registered_attendees) - 1
                 /\ Len(Get(attendees', last'.a).registered_events)
                      = Len(Get(attendees, last'.a).registered_events) - 1))]_vars

\* a booking was cancelled out of an event that keeps another booking
C8_Witness ==
  /\ last.op = "cancel_booking"
  /\ last.ok
  /\ Len(Get(events, last.e).registered_attendees) = 1
  /\ ~BookedInEvent(last.a, last.e)
  /\ ~BookedInAttendee(last.a, last.e)

Digit == <<"1", "2", "3", "4", "5", "6", "7", "8", "9">>

\* prefix followed by n zero-padded to four digits, for n of one digit
Padded(prefix, n) == prefix \o "000" \o Digit[n]

\* C9: the n-th create_event call returns EVT + n padded to four digits and
\* the n-th register_attendee call ATT + n padded to four digits; the call
\* succeeds, the identifier was no key before it, and the new record is
\* stored under it with an empty booking list.
C9_SequentialIds ==
  [][/\ last'.op = "create_event" /\ nCreate' = nCreate + 1
          => (/\ last'.ok
              /\ last'.id = Padded("EVT", nCreate')
              /\ last'.id \notin Keys(events)
              /\ Keys(events') = Keys(events) \cup {last'.id}
              /\ Len(events') = Len(events) + 1
              /\ Get(events', last'.id).event_id = last'.id
              /\ Get(events', last'.id).registered_attendees = <<>>)
     /\ last'.op = "register_attendee" /\ nRegister' = nRegister + 1
          => (/\ last'.ok
              /\ last'.id = Padded("ATT", nRegister')
              /\ last'.id \notin Keys(attendees)
              /\ Keys(attendees') = Keys(attendees) \cup {last'.id}
              /\ Len(attendees') = Len(attendees) + 1
              /\ Get(attendees', last'.id).attendee_id = last'.id
              /\ Get(attendees', last'.id).registered_events = <<>>)]_vars

\* the second event was created after a booking had been made
C9_Witness ==
  /\ last.op = "create_event"
  /\ last.id = "EVT0002"
  /\ nCreate = 2
  /\ SomeBooking

\* C10: save_data followed by load_data of the file gives back the store
\* that was saved: the same keys in the same order, the same field values
\* and the same booking lists in the same order.
C10_RoundTrip ==
  LET r == load_data(<<>>, <<>>, FileOf(save_data(events, attendees)))
  IN  /\ r.ok
      /\ KeySeq(r.events) = KeySeq(events)
      /\ KeySeq(r.attendees) = KeySeq(attendees)
      /\ r.events = events
      /\ r.attendees = attendees

\* the file that save_data wrote from a store with two events and a booking
\* was loaded, and the store is the one that was saved
C10_Witness ==
  /\ last.op = "load_data"
  /\ last.ok
  /\ file.data = save_data(events, attendees)
  /\ Len(events) >= 2
  /\ SomeBooking

\* C11 (as stated): after load_data on a file that does not exist no error
\* has left the call and the store is empty.
C11_MissingFileEmptiesStore ==
  (last.op = "load_data" /\ last.msg = "FileNotFound")
    => (events = <<>> /\ attendees = <<>>)

\* the characters c and d are the same letter in either case, or the same
\* character
SameIgnoringCase(c, d) ==
  c = d \/ \E i \in 1..Len(UpperCase) :
             {c, d} \subseteq {UpperCase[i], LowerCase[i]}

\* hay contains needle as a substring, compared case-insensitively
ContainsIgnoringCase(hay, needle) ==
  \E k \in 0..(Len(hay) - Len(needle)) :
    \A i \in 1..Len(needle) : SameIgnoringCase(hay[k + i], needle[i])

Matches(event, keyword) ==
  \/ ContainsIgnoringCase(event.title, keyword)
  \/ ContainsIgnoringCase(event.category, keyword)

PositionIn(d, event) == CHOOSE i \in 1..Len(d) : d[i].val = event

\* C12: search_events(keyword) returns exactly the events whose title or
\* category contains the keyword case-insensitively, each once, in the
\* insertion order of the store, and leaves the store as it was.
C12_SearchResults ==
  [][last'.op = "search_events"
       => (/\ \A i \in 1..Len(events) :
                Count(out'.results, events[i].val)
                  = (IF Matches(events[i].val, out'.keyword) THEN 1 ELSE 0)
           /\ \A j \in 1..Len(out'.results) :
                \E i \in 1..Len(events) : events[i].val = out'.results[j]
           /\ \A j, k \in 1..Len(out'.results) :
                j < k => PositionIn(events, out'.results[j])
                           < PositionIn(events, out'.results[k])
           /\ events' = events
           /\ attendees' = attendees)]_vars

\* an upper-case keyword found two events, the first by title and category
\* both, and passed over none or more others
C12_Witness ==
  /\ last.op = "search_events"
  /\ out.keyword = <<"T", "E", "C", "H">>
  /\ Len(out.results) = 2
  /\ out.results[1].title = <<"T", "e", "c", "h">>
  /\ out.results[1].category = <<"T", "e", "c", "h", "n", "o">>
  /\ out.results[2].title = <<"M", "u", "s", "i", "c">>

\* the attendee lines a report of event e would print in the given store
ReportEntries(evs, atts, e) == get_event_report(evs, atts, e).report.entries

NameEmail(atts, a) == <<Get(atts, a).name, Get(atts, a).email>>

\* seq without its p-th element
Without(seq, p) ==
  [i \in 1..(Len(seq) - 1) |-> IF i < p THEN seq[i] ELSE seq[i + 1]]

\* C13: the report of a known event gives registeredCount = the length of
\* registered_attendees, availableSeats = capacity - registeredCount and one
\* name/email entry per booked attendee, in the order of their current
\* bookings: a booking adds its entry at the end, a cancellation takes its
\* entry out and leaves the others in their order, and nothing else changes
\* the entries of an event.
C13_ReportContents ==
  [][/\ (last'.op = "get_event_report" /\ Has(events, last'.e))
          => LET event == Get(events, last'.e)
                 ids == event.registered_attendees
             IN  /\ out'.report.registered = Len(ids)
                 /\ out'.report.available = event.capacity - Len(ids)
                 /\ Len(out'.report.entries) = Len(ids)
                 /\ \A i \in 1..Len(ids) :
                      out'.report.entries[i] = NameEmail(attendees, ids[i])
     /\ \A e \in Keys(events) :
          ReportEntries(events', attendees', e) =
            IF last'.op = "book_event" /\ last'.ok /\ last'.e = e
            THEN Append(ReportEntries(events, attendees, e),
                        NameEmail(attendees, last'.a))
            ELSE IF last'.op = "cancel_booking" /\ last'.ok /\ last'.e = e
            THEN Without(ReportEntries(events, attendees, e),
                         CHOOSE p \in 1..Len(Get(events, e).registered_attendees) :
                           Get(events, e).registered_attendees[p] = last'.a)
            ELSE ReportEntries(events, attendees, e)]_vars

\* a report of three attendees, the first of whom had cancelled and booked
\* again and so comes last
C13_Witness ==
  /\ last.op = "get_event_report"
  /\ out.report.registered = 3
  /\ out.report.available = 0
  /\ out.report.entries
       = <<<<"Bob", "Bob@x.org">>, <<"Cy", "Cy@x.org">>, <<"Ann", "Ann@x.org">>>>
  /\ Get(events, last.e).registered_attendees = <<"ATT0002", "ATT0003", "ATT0001">>

\* C14: create_event accepts capacity 0 and get_event_report on such an event
\* ends in ZeroDivisionError instead of a report; the store is unchanged, and
\* the report of an event of any other capacity completes.
C14_ZeroCapacityFault ==
  [][(last'.op = "get_event_report" /\ Has(events, last'.e))
       => (/\ out'.raised <=> (Get(events, last'.e).capacity = 0)
           /\ out'.raised => (last'.msg = "ZeroDivisionError" /\ ~last'.ok)
           /\ ~out'.raised => (last'.msg = "Report" /\ last'.ok)
           /\ events' = events
           /\ attendees' = attendees)]_vars

\* the report of an event created with capacity 0 raised
C14_Witness ==
  /\ last.op = "get_event_report"
  /\ out.raised
  /\ Has(events, last.e)
  /\ Get(events, last.e).capacity = 0
  /\ Len(attendees) >= 1

Elements(seq) == {seq[i] : i \in 1..Len(seq)}

\* the entries of part come in the same relative order in whole
SameRelativeOrder(part, whole) ==
  \A i, j \in 1..Len(part) :
    i < j => \E m, n \in 1..Len(whole) :
               m < n /\ whole[m] = part[i] /\ whole[n] = part[j]

\* every record but those under the keys e and a is as it was, the keys and
\* their order are as they were, and the records of e and a differ at most in
\* their booking lists
OnlyTouches(a, e) ==
  /\ KeySeq(events') = KeySeq(events)
  /\ KeySeq(attendees') = KeySeq(attendees)
  /\ \A k \in Keys(events) \ {e} : Get(events', k) = Get(events, k)
  /\ \A k \in Keys(attendees) \ {a} : Get(attendees', k) = Get(attendees, k)
  /\ [Get(events', e) EXCEPT !.registered_attendees = <<>>]
       = [Get(events, e) EXCEPT !.registered_attendees = <<>>]
  /\ [Get(attendees', a) EXCEPT !.registered_events = <<>>]
       = [Get(attendees, a) EXCEPT !.registered_events = <<>>]

\* C15: a successful book_event(a, e) or cancel_booking(a, e) changes only
\* e.registered_attendees and a.registered_events and keeps the relative
\* order of the other entries of these two lists; create_event and
\* register_attendee add one record and change no record or booking that
\* exists.
C15_Frame ==
  [][/\ (last'.op = "book_event" /\ last'.ok)
          => (/\ OnlyTouches(last'.a, last'.e)
              /\ Elements(Get(events', last'.e).registered_attendees)
                   = Elements(Get(events, last'.e).registered_attendees)
                       \cup {last'.a}
              /\ Elements(Get(attendees', last'.a).registered_events)
                   = Elements(Get(attendees, last'.a).registered_events)
                       \cup {last'.e}
              /\ SameRelativeOrder(Get(events, last'.e).registered_attendees,
                                   Get(events', last'.e).registered_attendees)
              /\ SameRelativeOrder(Get(attendees, last'.a).registered_events,
                                   Get(attendees', last'.a).registered_events))
     /\ (last'.op = "cancel_booking" /\ last'.ok)
          => (/\ OnlyTouches(last'.a, last'.e)
              /\ Elements(Get(events', last'.e).registered_attendees)
                   = Elements(Get(events, last'.e).registered_attendees)
                       \ {last'.a}
              /\ Elements(Get(attendees', last'.a).registered_events)
                   = Elements(Get(attendees, last'.a).registered_events)
                       \ {last'.e}
              /\ SameRelativeOrder(Get(events', last'.e).registered_attendees,
                                   Get(events, last'.e).registered_attendees)
              /\ SameRelativeOrder(Get(attendees', last'.a).registered_events,
                                   Get(attendees, last'.a).registered_events))
     /\ last'.op = "create_event"
          => (/\ Len(events') = Len(events) + 1
              /\ \A i \in 1..Len(events) : events'[i] = events[i]
              /\ attendees' = attendees)
     /\ last'.op = "register_attendee"
          => (/\ Len(attendees') = Len(attendees) + 1
              /\ \A i \in 1..Len(attendees) : attendees'[i] = attendees[i]
              /\ events' = events)]_vars

\* one of three bookings was cancelled and the two others, made in the
\* reverse of their registration order, are left in their order
C15_Witness ==
  /\ last.op = "cancel_booking"
  /\ last.ok
  /\ last.a = "ATT0003"
  /\ Get(events, last.e).registered_attendees = <<"ATT0002", "ATT0001">>

\* C16 (as stated): after load_data of any well-formed document, create_event
\* returns an identifier that was no key, the events grow by one and no
\* event that exists is replaced; the same for register_attendee.
C16_NoOverwriteAfterLoad ==
  [][/\ last'.op = "create_event"
          => (/\ last'.id \notin Keys(events)
              /\ Len(events') = Len(events) + 1
              /\ \A i \in 1..Len(events) : events'[i] = events[i])
     /\ last'.op = "register_attendee"
          => (/\ last'.id \notin Keys(attendees)
              /\ Len(attendees') = Len(attendees) + 1
              /\ \A i \in 1..Len(attendees) : attendees'[i] = attendees[i])]_vars

\* C17 (as stated): after load_data the two dictionaries are both those of
\* the document or both what they were before the call.
C17_LoadAllOrNothing ==
  [][last'.op = "load_data"
       => \/ events' = events /\ attendees' = attendees
          \/ /\ last'.ok
             /\ events' = LoadedEvents(file.data)
             /\ attendees' = LoadedAttendees(file.data)]_vars

\* C18: an event of capacity <= 0 is never bookable: a book_event call that
\* names it and an existing attendee fails with EventFull, and in every
\* state reached by create / register / book / cancel its
\* registered_attendees list is empty and no attendee's registered_events
\* contains it.
C18_NonPositiveNeverBookable ==
  /\ \A e \in Keys(events) :
       Get(events, e).capacity <= 0
         => /\ Get(events, e).registered_attendees = <<>>
            /\ \A a \in Keys(attendees) : ~BookedInAttendee(a, e)
  /\ (/\ last.op = "book_event"
      /\ Has(attendees, last.a)
      /\ Has(events, last.e)
      /\ Get(events, last.e).capacity <= 0)
       => (~last.ok /\ last.msg = "EventFull")

\* a known attendee was just refused a seat in an event of negative capacity
C18_Witness ==
  /\ last.op = "book_event"
  /\ Has(attendees, last.a)
  /\ Has(events, last.e)
  /\ Get(events, last.e).capacity < 0
  /\ last.msg = "EventFull"

(***************************************************************************)
(* Two create_event invocations on the same store, each in two steps: the  *)
(* identifier is computed from len(self.events), then the event is stored  *)
(* under it.  Nothing in the class orders the two steps of one call        *)
(* against those of the other.  The store is set up by sequential calls    *)
(* while both invocations are still to start.                              *)
(***************************************************************************)
AllIdle == \A t \in Threads : threads[t].pc = "idle"

AllDone == \A t \in Threads : threads[t].pc = "done"

\* line 97: event_id = f"EVT{len(self.events) + 1:04d}"
ComputeId(t) ==
  /\ threads[t].pc = "idle"
  /\ LET meets == \E u \in Threads \ {t} : threads[u].pc = "computed"
     IN  threads' =
           [u \in Threads |->
              IF u = t
                THEN [pc |-> "computed", id |-> EventIdFor(events),
                      capacity |-> t, seen |-> Len(events),
                      overlapped |-> meets]
              ELSE IF threads[u].pc = "computed"
                THEN [threads[u] EXCEPT !.overlapped = TRUE]
              ELSE threads[u]]
  /\ out' = NoOutput
  /\ UNCHANGED <<events, attendees, file, last, nCreate, nRegister>>

\* lines 98-101: the event is built, stored under the identifier and the
\* identifier returned
StoreEvent(t) ==
  /\ threads[t].pc = "computed"
  /\ \E title \in Titles, category \in Categories :
       events' = store_event(events, threads[t].id, title,
                             threads[t].capacity, category)
  /\ threads' = [threads EXCEPT ![t].pc = "done"]
  /\ last' = Call("create_event", "", "", TRUE, "Created", threads[t].id)
  /\ nCreate' = nCreate + 1
  /\ out' = NoOutput
  /\ UNCHANGED <<attendees, file, nRegister>>

Sequential == AllIdle /\ Next

NextConcurrent ==
  \/ Sequential
  \/ \E t \in Threads : ComputeId(t)
  \/ \E t \in Threads : StoreEvent(t)

SpecConcurrent == Init /\ [][NextConcurrent]_vars

\* C19: when the two invocations both computed their identifier before
\* either stored its event, they return the same identifier and the store
\* holds one event fewer than the create_event calls that succeeded; when
\* one ran wholly after the other, the identifiers differ and no event is
\* lost.
C19_ConcurrentCreateCollides ==
  AllDone =>
    LET overlapped == \E t \in Threads : threads[t].overlapped
        ids == {threads[t].id : t \in Threads}
    IN  /\ overlapped
             => /\ Cardinality(ids) = 1
                /\ Len(events) = nCreate - 1
                /\ \A t \in Threads : threads[t].seen = Len(events) - 1
        /\ ~overlapped
             => /\ Cardinality(ids) = Cardinality(Threads)
                /\ Len(events) = nCreate
        /\ ids \subseteq Keys(events)

\* both invocations returned after computing their identifiers side by
\* side, over a store that already held an event
C19_Witness ==
  /\ AllDone
  /\ \A t \in Threads : threads[t].overlapped
  /\ nCreate = Cardinality(Threads) + 1
  /\ Len(events) = Cardinality(Threads)

====
